---- MODULE Spec2Model ----
(***************************************************************************)
(* A model of the aggregation code of Finance_Tracker_AI:                  *)
(*   src/FinancialTreaking101.py  (Streamlit + Supabase + pandas)          *)
(*   src/app_1.py                 (Streamlit + SQLite + pandas)            *)
(*                                                                         *)
(* A pandas DataFrame is a record [columns, rows]: the set of its column   *)
(* names and the sequence of its rows.  A cell that is None/NaN (a JSON    *)
(* null, or a key absent from one row's dict) is NULL.  Amounts are        *)
(* integers; a ratio that Python computes in floating point is kept as an  *)
(* exact fraction (Rat), so floating-point rounding is outside the model.  *)
(* Strings are ordered as python orders them (StrOrder); a date is the     *)
(* text 'YYYY-MM-DD' the code stores, and ParseDate reads its fields.       *)
(***************************************************************************)
EXTENDS Integers, Sequences, FiniteSets, TLC

\* Bounds of the model: the number of rows of the frames handed to the functions.
MaxExpenseRows == 2
MaxIncomeRows == 2
MaxGroupRows == 2
MaxGroupIncomeRows == 1

VARIABLES
    expenses_df,    \* the expense frame the page holds
    income_df,      \* the income frame the page holds
    session_state,  \* st.session_state: data_uploaded, supabase_connected, mock_data
    store,          \* the rows of the expenses and income tables of the store
    op,             \* the operation that ran last ("none" before any)
    error,          \* the exception that operation raised ("none" when it returned)
    metrics,        \* the dict calculate_financial_metrics returned
    charts,         \* the data behind each chart / grouped series that was built
    investments_df, \* the investment frame the Financial Workbench holds
    returned,       \* what the last function call returned to its caller
    supabase,       \* the module-level client of the current script run
    gemini_model,   \* the module-level Gemini model of the current script run
    reported,       \* the st.error / st.warning / st.success messages of the last handler
    args,           \* the arguments of the last function call
    db,             \* finance.db: the rows of the SQLite tables of app_1.py
    script          \* where each browser session is in its run of app_1.py

vars ==
    <<expenses_df, income_df, session_state, store, op, error, metrics, charts,
      investments_df, returned, args, supabase, gemini_model, reported, db, script>>

\* the state that the aggregation functions neither read nor write
services == <<investments_df, returned, args, supabase, gemini_model, reported, db, script>>

----------------------------------------------------------------------------
\* Values

NULL == "NULL"
NoMetrics == [none |-> TRUE]
NoCharts == <<>>
NoReturn == [none |-> TRUE]
NoArgs == [none |-> TRUE]
NoDb == [exists |-> TRUE, expenses |-> <<>>, income |-> <<>>, budgets |-> <<>>]
NoScript == <<>>

\* a message shown by st.error, st.warning, st.success or st.info: its text and
\* the names that are formatted into it
Msg(text) == [text |-> text, names |-> <<>>]

\* two dates as the code writes them: strftime('%Y-%m-%d')
Dates == {"2024-01-15", "2024-02-01"}

\* python's order of the strings used as grouping keys (code point order)
StrOrder ==
    <<"2024-01-01", "2024-01-15", "2024-02-01", "Cash", "Credit Card", "Food", "Freelance", "Housing", "Salary">>

StrRank(s) == CHOOSE i \in 1..Len(StrOrder) : StrOrder[i] = s

\* pd.to_datetime of a date string: a Timestamp, which equals no string
to_datetime(s) ==
    IF s = "2024-01-15" THEN "Timestamp('2024-01-15 00:00:00')"
    ELSE "Timestamp('2024-02-01 00:00:00')"

\* the year, month and day of a text 'YYYY-MM-DD' or of a Timestamp
ParseDate(s) ==
    IF s \in {"2024-01-15", "Timestamp('2024-01-15 00:00:00')"} THEN <<2024, 1, 15>>
    ELSE IF s = "2024-01-20" THEN <<2024, 1, 20>>
    ELSE <<2024, 2, 1>>

\* the day of a date, counted from 1970-01-01 (the value a Timestamp holds)
DayNumber(s) ==
    LET d == ParseDate(s)
        y == IF d[2] <= 2 THEN d[1] - 1 ELSE d[1]
        era == y \div 400
        yoe == y - era * 400
        mp == IF d[2] > 2 THEN d[2] - 3 ELSE d[2] + 9
        doy == (153 * mp + 2) \div 5 + d[3] - 1
        doe == yoe * 365 + yoe \div 4 - yoe \div 100 + doy
    IN  era * 146097 + doe - 719468

Abs(n) == IF n < 0 THEN -n ELSE n

RECURSIVE Gcd(_, _)
Gcd(a, b) == IF b = 0 THEN a ELSE Gcd(b, a % b)

\* the exact value n / d (d > 0), in lowest terms
Rat(n, d) ==
    LET g == Gcd(Abs(n), d)
    IN  [num |-> n \div g, den |-> d \div g]

Zero == Rat(0, 1)

----------------------------------------------------------------------------
\* DataFrames

ExpenseColumns == {"amount", "category", "date", "payment_method", "fixed"}
IncomeColumns == {"amount", "source", "date", "fixed"}

\* pd.DataFrame(): no columns, no rows
EmptyFrame == [columns |-> {}, rows |-> <<>>]

empty(df) == Len(df.rows) = 0

Frame(cols, rows) == IF Len(rows) = 0 THEN EmptyFrame ELSE [columns |-> cols, rows |-> rows]

SeqsUpTo(S, n) == UNION {[1..k -> S] : k \in 0..n}

\* df[mask]: the rows whose index is in the mask, in their order
RECURSIVE SelectRows(_, _)
SelectRows(rows, keep) ==
    IF Len(rows) = 0 THEN <<>>
    ELSE LET rest == SelectRows(SubSeq(rows, 1, Len(rows) - 1), keep)
         IN  IF Len(rows) \in keep THEN Append(rest, rows[Len(rows)]) ELSE rest

\* Series.sum() of the amount column of a sequence of rows: 0 for no rows
RECURSIVE SumAmount(_)
SumAmount(rows) ==
    IF Len(rows) = 0 THEN 0 ELSE SumAmount(SubSeq(rows, 1, Len(rows) - 1)) + rows[Len(rows)].amount

----------------------------------------------------------------------------
\* calculate_financial_metrics

\* df[df['fixed']] and df[~df['fixed']]: the column must exist (KeyError) and
\* hold no None/NaN (ValueError: cannot mask with non-boolean array containing NA)
MaskError(df) ==
    IF "fixed" \notin df.columns THEN "KeyError"
    ELSE IF \E i \in 1..Len(df.rows) : df.rows[i].fixed = NULL THEN "ValueError"
    ELSE "none"

\* df[df['fixed']]['amount'] on a boolean column
FixedRows(df) == SelectRows(df.rows, {i \in 1..Len(df.rows) : df.rows[i].fixed = "True"})

VariableRowsUnfiltered(df) == df.rows

\* df[~df['fixed']]['amount'] on a boolean column
VariableRows(df) == SelectRows(df.rows, {i \in 1..Len(df.rows) : df.rows[i].fixed = "False"})

\* the guard of every entry of the dict: 'amount' in df.columns and not df.empty
Summable(df) == "amount" \in df.columns /\ ~empty(df)

TotalAmount(df) == IF Summable(df) THEN SumAmount(df.rows) ELSE 0

\* x / total_income in python
DivisionError(total_income) == IF total_income = 0 THEN "ZeroDivisionError" ELSE "none"

RatioErrorUnguarded(total_income) == DivisionError(total_income)

\* (... / total_income * 100) if total_income > 0 else 0: the division is
\* evaluated only in the guarded branch
RatioError(total_income) == IF total_income > 0 THEN DivisionError(total_income) ELSE "none"

\* the exception the function raises: the entries of the dict literal are
\* evaluated in order, then the two ratios
MetricsError(e_df, i_df) ==
    IF Summable(e_df) /\ MaskError(e_df) # "none" THEN MaskError(e_df)
    ELSE IF Summable(i_df) /\ MaskError(i_df) # "none" THEN MaskError(i_df)
    ELSE RatioError(TotalAmount(i_df))

NetIncomeSwapped(total_income, total_expenses) == total_expenses - total_income

NetIncome(total_income, total_expenses) == total_income - total_expenses

RatioAsFraction(part, total_income) == IF total_income > 0 THEN Rat(part, total_income) ELSE Zero

\* (part / total_income * 100) if total_income > 0 else 0
Ratio(part, total_income) == IF total_income > 0 THEN Rat(part * 100, total_income) ELSE Zero

MetricsDict(e_df, i_df) ==
    LET total_expenses == TotalAmount(e_df)
        total_income == TotalAmount(i_df)
        net_income == NetIncome(total_income, total_expenses)
    IN  [total_expenses |-> total_expenses,
         total_income |-> total_income,
         fixed_expenses |-> IF Summable(e_df) THEN SumAmount(FixedRows(e_df)) ELSE 0,
         variable_expenses |-> IF Summable(e_df) THEN SumAmount(VariableRows(e_df)) ELSE 0,
         fixed_income |-> IF Summable(i_df) THEN SumAmount(FixedRows(i_df)) ELSE 0,
         variable_income |-> IF Summable(i_df) THEN SumAmount(VariableRows(i_df)) ELSE 0,
         net_income |-> net_income,
         savings_rate |-> Ratio(net_income, total_income),
         expense_ratio |-> Ratio(total_expenses, total_income)]

calculate_financial_metrics ==
    /\ op = "none"
    /\ op' = "calculate_financial_metrics"
    /\ error' = MetricsError(expenses_df, income_df)
    /\ metrics' = IF error' = "none" THEN MetricsDict(expenses_df, income_df) ELSE NoMetrics
    /\ UNCHANGED <<expenses_df, income_df, session_state, store, charts>>
    /\ UNCHANGED services

----------------------------------------------------------------------------
\* The inputs of calculate_financial_metrics

FixedCells == {"True", "False", NULL}

MetricsExpenseRows ==
    [amount : {100, 200}, category : {"Food"}, date : {"2024-01-15"},
     payment_method : {"Cash"}, fixed : FixedCells]

MetricsIncomeRows ==
    [amount : {0, 1000}, source : {"Salary"}, date : {"2024-01-15"}, fixed : FixedCells]

\* every frame of at most n rows, with and without its fixed column
Frames(Rows, cols, n) ==
    {Frame(cols, r) : r \in SeqsUpTo(Rows, n)}
        \cup {Frame(cols \ {"fixed"}, r) : r \in SeqsUpTo({x \in Rows : x.fixed = NULL}, n)}

\* the session flags as lines 29-34 leave them, after a run that connected
ConnectedSession ==
    [data_uploaded |-> FALSE, supabase_connected |-> TRUE, mock_data |-> FALSE,
     gemini_initialized |-> TRUE]

\* the tables the two frames were fetched from, and the four other tables
StoreOf(e_df, i_df) ==
    [expenses |-> e_df.rows, income |-> i_df.rows, budgets |-> <<>>, goals |-> <<>>,
     investments |-> <<>>, recurring |-> <<>>]

InitResults ==
    /\ session_state = ConnectedSession
    /\ store = StoreOf(expenses_df, income_df)
    /\ op = "none"
    /\ error = "none"
    /\ metrics = NoMetrics
    /\ charts = NoCharts
    /\ returned = NoReturn
    /\ args = NoArgs
    /\ supabase = "client"
    /\ gemini_model = "model"
    /\ reported = {}
    /\ db = NoDb
    /\ script = NoScript

InitMetrics ==
    /\ expenses_df \in Frames(MetricsExpenseRows, ExpenseColumns, MaxExpenseRows)
    /\ income_df \in Frames(MetricsIncomeRows, IncomeColumns, MaxIncomeRows)
    /\ InitResults
    /\ investments_df = EmptyFrame

NextMetrics == calculate_financial_metrics

SpecMetrics == InitMetrics /\ [][NextMetrics]_vars

----------------------------------------------------------------------------
\* Grouped series: df.groupby(col)['amount'].sum().reset_index()

\* the keys of the groups: groupby drops the rows whose key is None/NaN (dropna=True)
GroupKeys(rows, col) == {rows[i][col] : i \in 1..Len(rows)} \ {NULL}

\* a set of strings in ascending order
RECURSIVE SortedKeys(_)
SortedKeys(S) ==
    IF S = {} THEN <<>>
    ELSE LET m == CHOOSE x \in S : \A y \in S : StrRank(x) <= StrRank(y)
         IN  <<m>> \o SortedKeys(S \ {m})

\* the distinct non-null keys in the order in which each is first seen
RECURSIVE FirstSeenKeys(_, _)
FirstSeenKeys(rows, col) ==
    IF Len(rows) = 0 THEN <<>>
    ELSE LET before == FirstSeenKeys(SubSeq(rows, 1, Len(rows) - 1), col)
             k == rows[Len(rows)][col]
         IN  IF k = NULL \/ \E i \in 1..Len(before) : before[i] = k THEN before
             ELSE Append(before, k)

SumOfGroup(rows, col, k) == SumAmount(SelectRows(rows, {j \in 1..Len(rows) : rows[j][col] = k}))

GroupBySumUnsorted(rows, col) ==
    LET keys == FirstSeenKeys(rows, col)
    IN  [i \in 1..Len(keys) |-> [key |-> keys[i], amount |-> SumOfGroup(rows, col, keys[i])]]

GroupBySumNoData(rows, col) ==
    IF Len(rows) = 0 THEN <<[key |-> "No Data", amount |-> 1]>>
    ELSE LET keys == SortedKeys(GroupKeys(rows, col))
         IN  [i \in 1..Len(keys) |-> [key |-> keys[i], amount |-> SumOfGroup(rows, col, keys[i])]]

\* groupby(col) with its defaults sort=True, dropna=True: one entry per key, the
\* keys ascending
GroupBySum(rows, col) ==
    LET keys == SortedKeys(GroupKeys(rows, col))
    IN  [i \in 1..Len(keys) |-> [key |-> keys[i], amount |-> SumOfGroup(rows, col, keys[i])]]

SeriesKeys(series) == [i \in 1..Len(series) |-> series[i].key]

AmountOf(series, k) ==
    IF \E i \in 1..Len(series) : series[i].key = k
    THEN series[CHOOSE i \in 1..Len(series) : series[i].key = k].amount
    ELSE 0

\* The order of the keys of pd.merge(left, right, on=..., how='outer') without
\* sort=True, the code passing none.  pandas from 2.2 on sorts the keys of an
\* outer join; earlier versions keep the keys of the left frame in their order
\* and append the keys found only in the right frame.  The repository pins no
\* version, so both are outcomes of a build.
MergeKeyOrders == {"sorted", "left_then_right"}

OuterKeys(left, right, order) ==
    LET lk == SeriesKeys(left)
        rk == SeriesKeys(right)
        in_left == {lk[i] : i \in 1..Len(lk)}
    IN  IF order = "sorted" THEN SortedKeys(in_left \cup {rk[i] : i \in 1..Len(rk)})
        ELSE lk \o SelectSeq(rk, LAMBDA k : k \notin in_left)

\* pd.merge(expenses by date, income by date, on='date', how='outer').fillna(0),
\* then cash_flow['net'] = cash_flow['income'] - cash_flow['expenses']
CashFlow(left, right, order) ==
    LET keys == OuterKeys(left, right, order)
    IN  [i \in 1..Len(keys) |->
            [key |-> keys[i],
             expenses |-> AmountOf(left, keys[i]),
             income |-> AmountOf(right, keys[i]),
             net |-> AmountOf(right, keys[i]) - AmountOf(left, keys[i])]]

----------------------------------------------------------------------------
\* create_financial_charts: the data frame handed to each plotly figure

ExpenseCharts(e_df) ==
    IF ~empty(e_df) /\ "amount" \in e_df.columns /\ "category" \in e_df.columns
    THEN "expense_by_category" :> GroupBySum(e_df.rows, "category")
             @@ "expense_trend" :> GroupBySum(e_df.rows, "date")
    ELSE <<>>

IncomeCharts(i_df) ==
    IF ~empty(i_df) /\ "amount" \in i_df.columns /\ "source" \in i_df.columns
    THEN "income_by_source" :> GroupBySum(i_df.rows, "source")
             @@ "income_trend" :> GroupBySum(i_df.rows, "date")
    ELSE <<>>

CashFlowChart(e_df, i_df, order) ==
    IF ~empty(e_df) /\ ~empty(i_df) /\ "amount" \in e_df.columns /\ "amount" \in i_df.columns
    THEN "cash_flow" :> CashFlow(GroupBySum(e_df.rows, "date"), GroupBySum(i_df.rows, "date"), order)
    ELSE <<>>

create_financial_charts ==
    /\ op = "none"
    /\ op' = "create_financial_charts"
    /\ error' = "none"
    /\ \E order \in MergeKeyOrders :
           charts' = ExpenseCharts(expenses_df) @@ IncomeCharts(income_df)
                         @@ CashFlowChart(expenses_df, income_df, order)
    /\ UNCHANGED <<expenses_df, income_df, session_state, store, metrics>>
    /\ UNCHANGED services

----------------------------------------------------------------------------
\* The Expenses page of FinancialTreaking101.py: the series of its three tabs

copy_alias(df) == [frame |-> df, alias |-> TRUE]

\* expenses_df.copy(): a new object, which the name expenses_df does not refer to
copy(df) == [frame |-> df, alias |-> FALSE]

\* weekly_data['date'] = pd.to_datetime(weekly_data['date'])
WithDatetime(df) ==
    [df EXCEPT !.rows = [i \in 1..Len(df.rows) |->
                            [df.rows[i] EXCEPT !.date = to_datetime(df.rows[i].date)]]]

\* the label of the weekly bin of day t, resample('W'): the Sunday that ends its
\* week (1970-01-04, day 3, was a Sunday)
WeekEnd(t) == t + ((3 - t) % 7)

RECURSIVE SumOfWeek(_, _)
SumOfWeek(rows, w) ==
    IF Len(rows) = 0 THEN 0
    ELSE SumOfWeek(SubSeq(rows, 1, Len(rows) - 1), w)
             + (IF WeekEnd(DayNumber(rows[Len(rows)].date)) = w THEN rows[Len(rows)].amount ELSE 0)

\* set_index('date').resample('W')['amount'].sum().reset_index(): one entry per
\* week from the week of the first day to the week of the last, empty weeks included
ResampleWeekly(rows) ==
    LET ends == {WeekEnd(DayNumber(rows[i].date)) : i \in 1..Len(rows)}
        first == CHOOSE w \in ends : \A v \in ends : w <= v
        last == CHOOSE w \in ends : \A v \in ends : v <= w
    IN  [n \in 1..((last - first) \div 7 + 1) |->
            [key |-> first + 7 * (n - 1), amount |-> SumOfWeek(rows, first + 7 * (n - 1))]]

OverviewTab(e_df) ==
    (IF "category" \in e_df.columns THEN "cat_data" :> GroupBySum(e_df.rows, "category") ELSE <<>>)
        @@ (IF "payment_method" \in e_df.columns
            THEN "pm_data" :> GroupBySum(e_df.rows, "payment_method") ELSE <<>>)

TrendsTab(e_df, weekly) ==
    IF "date" \in e_df.columns /\ "amount" \in e_df.columns
    THEN "daily_data" :> GroupBySum(e_df.rows, "date")
             @@ "weekly_data" :> ResampleWeekly(WithDatetime(weekly.frame).rows)
    ELSE <<>>

expenses_page_analysis ==
    /\ op = "none"
    /\ op' = "expenses_page_analysis"
    /\ error' = "none"
    /\ IF ~empty(expenses_df) /\ "amount" \in expenses_df.columns
       THEN LET weekly_data == copy(expenses_df)
            IN  /\ charts' = OverviewTab(expenses_df) @@ TrendsTab(expenses_df, weekly_data)
                /\ expenses_df' = IF weekly_data.alias /\ "date" \in expenses_df.columns
                                  THEN WithDatetime(expenses_df) ELSE expenses_df
       ELSE /\ charts' = NoCharts
            /\ expenses_df' = expenses_df
    /\ UNCHANGED <<income_df, session_state, store, metrics>>
    /\ UNCHANGED services

\* The Expenses page of app_1.py: the frame read by the SELECT always has its
\* columns and is grouped without a guard
app1_expenses_page ==
    /\ op = "none"
    /\ op' = "app1_expenses_page"
    /\ error' = "none"
    /\ charts' = "cat_data" :> GroupBySum(expenses_df.rows, "category")
    /\ UNCHANGED <<expenses_df, income_df, session_state, store, metrics>>
    /\ UNCHANGED services

----------------------------------------------------------------------------
\* The inputs of the grouping code

GroupExpenseRows ==
    [amount : {100, 200}, category : {"Food", "Housing", NULL}, date : Dates,
     payment_method : {"Cash"}, fixed : {"False"}]

PageExpenseRows ==
    [amount : {100, 200}, category : {"Food", "Housing", NULL}, date : Dates,
     payment_method : {"Cash", "Credit Card"}, fixed : {"False"}]

GroupIncomeRows ==
    [amount : {1000}, source : {"Salary", "Freelance"}, date : Dates, fixed : {"True"}]

InitGroup ==
    /\ \/ /\ expenses_df \in {Frame(ExpenseColumns, r) : r \in SeqsUpTo(GroupExpenseRows, MaxGroupRows)}
          /\ income_df \in {Frame(IncomeColumns, r) : r \in SeqsUpTo(GroupIncomeRows, MaxGroupIncomeRows)}
       \/ /\ expenses_df \in {Frame(ExpenseColumns, r) : r \in SeqsUpTo(PageExpenseRows, MaxGroupRows)}
          /\ income_df = EmptyFrame
    /\ InitResults
    /\ investments_df = EmptyFrame

NextGroup ==
    \/ calculate_financial_metrics
    \/ create_financial_charts
    \/ expenses_page_analysis
    \/ app1_expenses_page

SpecGroup == InitGroup /\ [][NextGroup]_vars

----------------------------------------------------------------------------
\* Properties of calculate_financial_metrics (checked under SpecMetrics)

Returned == op = "calculate_financial_metrics" /\ error = "none"

\* every row of the frame carries a boolean fixed flag (a Transaction of the data model)
BooleanFlags(df) ==
    empty(df) \/ ("fixed" \in df.columns /\ \A i \in 1..Len(df.rows) : df.rows[i].fixed \in {"True", "False"})

WellFormedInputs == BooleanFlags(expenses_df) /\ BooleanFlags(income_df)

\* C1: for every pair of expense and income collections (either may be empty) the
\* function returns, and the returned net_income is the returned total_income minus
\* the returned total_expenses, each total being the sum of the amounts of its
\* collection (0 for an empty one).
C1_NetIncomeIsIncomeMinusExpenses ==
    op = "calculate_financial_metrics" =>
        /\ WellFormedInputs => error = "none"
        /\ error = "none" =>
            /\ metrics.net_income = metrics.total_income - metrics.total_expenses
            /\ metrics.total_expenses = SumAmount(expenses_df.rows)
            /\ metrics.total_income = SumAmount(income_df.rows)
            /\ empty(expenses_df) => metrics.total_expenses = 0
            /\ empty(income_df) => metrics.total_income = 0

C1_Witness ==
    /\ Returned
    /\ ~empty(expenses_df) /\ ~empty(income_df)
    /\ metrics.total_expenses = 300 /\ metrics.total_income = 1000 /\ metrics.net_income = 700

\* C2: whenever total_income is 0 (the empty income collection included) the
\* function divides by nothing and returns savings_rate = 0 and expense_ratio = 0.
C2_ZeroIncomeGivesZeroRatios ==
    (op = "calculate_financial_metrics" /\ SumAmount(income_df.rows) = 0) =>
        /\ error # "ZeroDivisionError"
        /\ WellFormedInputs => error = "none"
        /\ error = "none" => metrics.savings_rate = Zero /\ metrics.expense_ratio = Zero

C2_Witness ==
    /\ Returned
    /\ ~empty(income_df) /\ ~empty(expenses_df)
    /\ metrics.total_income = 0 /\ metrics.total_expenses > 0
    /\ metrics.savings_rate = Zero

\* C3: for every non-empty expense collection the returned fixed_expenses and
\* variable_expenses add up to the returned total_expenses: every row is counted in
\* exactly one of the two partitions.
C3_FixedPlusVariableIsTotal ==
    (op = "calculate_financial_metrics" /\ ~empty(expenses_df)) =>
        /\ WellFormedInputs => error = "none"
        /\ error = "none" =>
            /\ metrics.fixed_expenses + metrics.variable_expenses = metrics.total_expenses
            /\ metrics.fixed_expenses =
                   SumAmount(SelectRows(expenses_df.rows,
                       {i \in 1..Len(expenses_df.rows) : expenses_df.rows[i].fixed = "True"}))

C3_Witness ==
    /\ Returned
    /\ metrics.fixed_expenses = 200 /\ metrics.variable_expenses = 100
    /\ metrics.total_expenses = 300

\* the example of the spec: expenses {100 variable, 200 fixed}, income {1000}
ExampleInputs ==
    /\ Len(expenses_df.rows) = 2
    /\ expenses_df.rows[1].amount = 100 /\ expenses_df.rows[1].fixed = "False"
    /\ expenses_df.rows[2].amount = 200 /\ expenses_df.rows[2].fixed = "True"
    /\ Len(income_df.rows) = 1
    /\ income_df.rows[1].amount = 1000 /\ income_df.rows[1].fixed = "True"

\* C4: with total_income > 0, savings_rate = net_income / total_income * 100 and
\* expense_ratio = total_expenses / total_income * 100; the example gives
\* 300, 700, 70, 30, 200 and 100.
C4_RatiosOfPositiveIncome ==
    op = "calculate_financial_metrics" =>
        /\ (SumAmount(income_df.rows) > 0 /\ error = "none") =>
            /\ metrics.savings_rate.num * metrics.total_income
                   = metrics.net_income * 100 * metrics.savings_rate.den
            /\ metrics.expense_ratio.num * metrics.total_income
                   = metrics.total_expenses * 100 * metrics.expense_ratio.den
        /\ ExampleInputs =>
            /\ error = "none"
            /\ metrics.total_expenses = 300 /\ metrics.total_income = 1000
            /\ metrics.net_income = 700
            /\ metrics.savings_rate = [num |-> 70, den |-> 1]
            /\ metrics.expense_ratio = [num |-> 30, den |-> 1]
            /\ metrics.fixed_expenses = 200 /\ metrics.variable_expenses = 100

C4_Witness == Returned /\ ExampleInputs /\ metrics.savings_rate = [num |-> 70, den |-> 1]

\* C5: the function has no error outcome: for every expense and income collection,
\* rows with a missing or null fixed flag included, it returns a complete summary
\* that counts such a row as not fixed.
C5_NoErrorOutcome ==
    op = "calculate_financial_metrics" =>
        /\ error = "none"
        /\ metrics.fixed_expenses =
               SumAmount(SelectRows(expenses_df.rows,
                   {i \in 1..Len(expenses_df.rows) : expenses_df.rows[i].fixed = "True"}))
        /\ metrics.variable_expenses = metrics.total_expenses - metrics.fixed_expenses

----------------------------------------------------------------------------
\* Properties of the grouping code (checked under SpecGroup)

AggregationOps ==
    {"calculate_financial_metrics", "create_financial_charts", "expenses_page_analysis",
     "app1_expenses_page"}

\* the series built from the expense frame alone, from the income frame alone
ExpenseSeries == {"expense_by_category", "expense_trend", "cat_data", "pm_data", "daily_data", "weekly_data"}
IncomeSeries == {"income_by_source", "income_trend"}

\* the column each keyed series is grouped by
KeyedByColumn ==
    [expense_by_category |-> "category", cat_data |-> "category", pm_data |-> "payment_method",
     income_by_source |-> "source"]

InputRows(name) == IF name \in IncomeSeries THEN income_df.rows ELSE expenses_df.rows

Built(name) == name \in DOMAIN charts

\* C6: the aggregation operations are pure: each leaves the expense and income
\* collections it is given unchanged (same rows, same cells, same order) and
\* changes neither the session flags nor the store.
C6_AggregationIsPure ==
    [][op' \in AggregationOps =>
          /\ expenses_df' = expenses_df
          /\ income_df' = income_df
          /\ session_state' = session_state
          /\ store' = store]_vars

C6_Witness ==
    /\ op = "expenses_page_analysis"
    /\ Built("weekly_data") /\ Len(charts["weekly_data"]) = 3
    /\ Len(expenses_df.rows) = 2
    /\ expenses_df.rows[1].date = "2024-02-01" /\ expenses_df.rows[2].date = "2024-01-15"
    /\ store.expenses = expenses_df.rows
    /\ session_state = ConnectedSession

\* C7: grouping the expense rows by category and summing the amounts of all the
\* groups gives exactly the sum of all row amounts; no row is in no group, a row
\* whose category is null included.
C7_GroupSumsAddUpToTotal ==
    \A name \in {"expense_by_category", "cat_data"} :
        Built(name) => SumAmount(charts[name]) = SumAmount(expenses_df.rows)

\* C8: every date-grouped series (expense trend, income trend, daily trend, the
\* cash flow merged over expenses and income) lists each date once and in strictly
\* ascending date order, whatever the order of the input rows.
C8_DateSeriesAscending ==
    \A name \in {"expense_trend", "income_trend", "daily_data", "cash_flow"} :
        Built(name) =>
            \A i, j \in 1..Len(charts[name]) :
                i < j => DayNumber(charts[name][i].key) < DayNumber(charts[name][j].key)

\* C9: building a grouped series over an empty collection raises no error, and
\* every series built from that collection is the empty sequence.
C9_EmptyCollectionEmptySeries ==
    op \in AggregationOps \ {"calculate_financial_metrics"} =>
        /\ (empty(expenses_df) \/ empty(income_df)) => error = "none"
        /\ empty(expenses_df) =>
               \A name \in ExpenseSeries \cup {"cash_flow"} : Built(name) => charts[name] = <<>>
        /\ empty(income_df) =>
               \A name \in IncomeSeries \cup {"cash_flow"} : Built(name) => charts[name] = <<>>

C9_Witness ==
    /\ op = "app1_expenses_page"
    /\ empty(expenses_df)
    /\ error = "none"
    /\ Built("cat_data") /\ charts["cat_data"] = <<>>

\* C10 as stated: in a series keyed by category, source or payment method the
\* entries appear in the order in which each key is first seen in the input.
C10_FirstSeenOrder ==
    \A name \in DOMAIN KeyedByColumn :
        Built(name) => SeriesKeys(charts[name]) = FirstSeenKeys(InputRows(name), KeyedByColumn[name])

\* C10 as amended: in a series keyed by category, source or payment method each
\* non-null key of the input has exactly one entry, holding the sum of its rows,
\* and the entries appear in ascending key order, whatever the order of the input.
C10_MergedInAscendingKeyOrder ==
    \A name \in DOMAIN KeyedByColumn :
        Built(name) =>
            LET series == charts[name]
                rows == InputRows(name)
                col == KeyedByColumn[name]
            IN  /\ \A i, j \in 1..Len(series) : i < j => StrRank(series[i].key) < StrRank(series[j].key)
                /\ {series[i].key : i \in 1..Len(series)}
                       = {rows[r][col] : r \in 1..Len(rows)} \ {NULL}
                /\ \A i \in 1..Len(series) :
                       series[i].amount
                           = SumAmount(SelectRows(rows, {r \in 1..Len(rows) : rows[r][col] = series[i].key}))

C10_Witness ==
    /\ op = "expenses_page_analysis"
    /\ Len(expenses_df.rows) = 2
    /\ expenses_df.rows[1].category = "Housing" /\ expenses_df.rows[2].category = "Food"
    /\ expenses_df.rows[1].payment_method = "Cash" /\ expenses_df.rows[2].payment_method = "Cash"
    /\ Built("cat_data") /\ SeriesKeys(charts["cat_data"]) = <<"Food", "Housing">>
    /\ Built("pm_data") /\ Len(charts["pm_data"]) = 1
    /\ charts["pm_data"][1].amount = expenses_df.rows[1].amount + expenses_df.rows[2].amount

----------------------------------------------------------------------------
\* The trend/forecast projector (design section 4.3).  No revision under src/
\* holds its code; it is modelled from the design: monthly sums of each
\* history, their arithmetic mean as the flat value of every future month,
\* "insufficient data" when a history is empty.

MaxHistoryRows == 2
MaxMonthsAhead == 2

\* the calendar month of a date
MonthOf(s) == <<ParseDate(s)[1], ParseDate(s)[2]>>

MonthsOf(rows) == {MonthOf(rows[i].date) : i \in 1..Len(rows)}

\* the sum of the amounts of one month
MonthlySum(rows, m) ==
    SumAmount(SelectRows(rows, {i \in 1..Len(rows) : MonthOf(rows[i].date) = m}))

RECURSIVE SumOfMonthlySums(_, _)
SumOfMonthlySums(rows, months) ==
    IF months = {} THEN 0
    ELSE LET m == CHOOSE x \in months : TRUE
         IN  MonthlySum(rows, m) + SumOfMonthlySums(rows, months \ {m})

MeanOfMonthlySumsUndivided(rows) == Rat(SumOfMonthlySums(rows, MonthsOf(rows)), 1)

\* the arithmetic mean of the monthly sums of a non-empty history
MeanOfMonthlySums(rows) == Rat(SumOfMonthlySums(rows, MonthsOf(rows)), Cardinality(MonthsOf(rows)))

\* a - b of two exact fractions
RatSub(a, b) == Rat(a.num * b.den - b.num * a.den, a.den * b.den)

\* the month k months after month m
AddMonths(m, k) ==
    LET n == m[1] * 12 + (m[2] - 1) + k
    IN  <<n \div 12, (n % 12) + 1>>

\* the latest month of the two histories
LastMonth(e_rows, i_rows) ==
    CHOOSE m \in MonthsOf(e_rows) \cup MonthsOf(i_rows) :
        \A x \in MonthsOf(e_rows) \cup MonthsOf(i_rows) : x[1] * 12 + x[2] <= m[1] * 12 + m[2]

ForecastPoint(e_rows, i_rows, k) ==
    [future_date |-> AddMonths(LastMonth(e_rows, i_rows), k),
     projected_expense |-> MeanOfMonthlySums(e_rows),
     projected_income |-> MeanOfMonthlySums(i_rows),
     projected_net |-> RatSub(MeanOfMonthlySums(i_rows), MeanOfMonthlySums(e_rows))]

\* the value the projector returns for months_ahead = n
forecast(e_df, i_df, n) ==
    IF empty(e_df) \/ empty(i_df) THEN [kind |-> "insufficient data", points |-> <<>>]
    ELSE [kind |-> "forecast", points |-> [k \in 1..n |-> ForecastPoint(e_df.rows, i_df.rows, k)]]

project_forecast ==
    /\ op = "none"
    /\ \E n \in 0..MaxMonthsAhead :
        /\ args' = [months_ahead |-> n]
        /\ returned' = forecast(expenses_df, income_df, n)
    /\ op' = "forecast"
    /\ error' = "none"
    /\ UNCHANGED <<expenses_df, income_df, session_state, store, metrics, charts>>
    /\ UNCHANGED <<investments_df, supabase, gemini_model, reported, db, script>>

HistoryDates == {"2024-01-15", "2024-01-20", "2024-02-01"}

HistoryExpenseRows ==
    [amount : {100, 200}, category : {"Food"}, date : HistoryDates,
     payment_method : {"Cash"}, fixed : {"False"}]

HistoryIncomeRows ==
    [amount : {0, 1000}, source : {"Salary"}, date : HistoryDates, fixed : {"True"}]

InitForecast ==
    /\ expenses_df \in {Frame(ExpenseColumns, r) : r \in SeqsUpTo(HistoryExpenseRows, MaxHistoryRows)}
    /\ income_df \in {Frame(IncomeColumns, r) : r \in SeqsUpTo(HistoryIncomeRows, MaxHistoryRows)}
    /\ InitResults
    /\ investments_df = EmptyFrame

NextForecast == project_forecast

SpecForecast == InitForecast /\ [][NextForecast]_vars

\* C11: a forecast over two non-empty histories returns exactly months_ahead
\* points; every point carries the mean of the monthly expense sums (its value
\* times the number of months is the total of the history), the mean of the
\* monthly income sums, and projected_net = projected_income - projected_expenses.
C11_ForecastIsFlatMeanOfNPoints ==
    (op = "forecast" /\ ~empty(expenses_df) /\ ~empty(income_df)) =>
        /\ returned.kind = "forecast"
        /\ Len(returned.points) = args.months_ahead
        /\ \A k \in 1..Len(returned.points) :
            LET pt == returned.points[k]
            IN  /\ pt.projected_expense.num * Cardinality(MonthsOf(expenses_df.rows))
                       = SumAmount(expenses_df.rows) * pt.projected_expense.den
                /\ pt.projected_income.num * Cardinality(MonthsOf(income_df.rows))
                       = SumAmount(income_df.rows) * pt.projected_income.den
                /\ pt.projected_expense = returned.points[1].projected_expense
                /\ pt.projected_income = returned.points[1].projected_income
                /\ pt.projected_net.num * pt.projected_income.den * pt.projected_expense.den
                       = pt.projected_net.den
                           * (pt.projected_income.num * pt.projected_expense.den
                                - pt.projected_expense.num * pt.projected_income.den)

C11_Witness ==
    /\ op = "forecast"
    /\ args.months_ahead = 2
    /\ Cardinality(MonthsOf(expenses_df.rows)) = 2
    /\ SumAmount(expenses_df.rows) = 300
    /\ SumAmount(income_df.rows) = 1000
    /\ returned.kind = "forecast"
    /\ Len(returned.points) = 2
    /\ returned.points[2].projected_expense = Rat(150, 1)
    /\ returned.points[2].projected_net = Rat(850, 1)

----------------------------------------------------------------------------
\* The Financial Workbench page (FinancialTreaking101.py, lines 779-797).
\* investments_df is the frame lines 782-783 obtained (stored or mock rows).

MaxInvestmentRows == 3

InvestmentColumns == {"asset_name", "amount"}

InvestmentRows == [asset_name : {"A", "B", "C"}, amount : {50, 100, 200}]

\* the largest amount of a non-empty frame, and the rows that hold it
LargestAmount(rows) ==
    CHOOSE a \in {rows[i].amount : i \in 1..Len(rows)} : \A j \in 1..Len(rows) : rows[j].amount <= a

Largest(rows) == {i \in 1..Len(rows) : rows[i].amount = LargestAmount(rows)}

\* initial_guess: equal weights
initial_guess(rows) == [k \in 1..Len(rows) |-> Rat(1, Len(rows))]

minimize_unmoved(rows) == initial_guess(rows)

\* result.x of minimize(objective, initial_guess, method='SLSQP', bounds, constraints)
\* when it converges: the maximiser of sum(amount * weights) on the simplex that
\* the iteration reaches from equal weights.  The iteration treats rows of equal
\* amount alike, so the rows of the largest amount keep equal weights and every
\* other row ends at its lower bound 0.
minimize(rows) ==
    [k \in 1..Len(rows) |->
        IF k \in Largest(rows) THEN Rat(1, Cardinality(Largest(rows))) ELSE Zero]

\* pd.DataFrame({'Asset': investments_df['asset_name'], 'Optimal Weight': optimized_weights})
AllocationFrame(rows, weights) ==
    [k \in 1..Len(rows) |-> [Asset |-> rows[k].asset_name, OptimalWeight |-> weights[k]]]

financial_workbench_page ==
    /\ op = "none"
    /\ op' = "Financial Workbench"
    /\ error' = "none"
    /\ args' = NoArgs
    /\ \/ /\ ~(~empty(investments_df) /\ "amount" \in investments_df.columns)
          /\ returned' = [kind |-> "no allocation", rows |-> <<>>]
          /\ reported' = {Msg("No investments for optimization.")}
       \/ /\ ~empty(investments_df) /\ "amount" \in investments_df.columns
          /\ \E success \in BOOLEAN :
                IF success
                THEN /\ returned' = [kind |-> "allocation",
                                     rows |-> AllocationFrame(investments_df.rows,
                                                              minimize(investments_df.rows))]
                     /\ reported' = {}
                ELSE /\ returned' = [kind |-> "no allocation", rows |-> <<>>]
                     /\ reported' = {Msg("Optimization failed.")}
    /\ UNCHANGED <<expenses_df, income_df, session_state, store, metrics, charts>>
    /\ UNCHANGED <<investments_df, supabase, gemini_model, db, script>>

InitWorkbench ==
    /\ expenses_df = EmptyFrame
    /\ income_df = EmptyFrame
    /\ InitResults
    /\ \E df \in {Frame(InvestmentColumns, r) : r \in SeqsUpTo(InvestmentRows, MaxInvestmentRows)} :
            investments_df = df

NextWorkbench == financial_workbench_page

SpecWorkbench == InitWorkbench /\ [][NextWorkbench]_vars

Allocated == op = "Financial Workbench" /\ returned.kind = "allocation"

RatAdd(a, b) == Rat(a.num * b.den + b.num * a.den, a.den * b.den)

RECURSIVE SumOfWeights(_)
SumOfWeights(rows) ==
    IF Len(rows) = 0 THEN Zero
    ELSE RatAdd(SumOfWeights(SubSeq(rows, 1, Len(rows) - 1)), rows[Len(rows)].OptimalWeight)

FirstSeenLargest(rows) == CHOOSE i \in Largest(rows) : \A j \in Largest(rows) : i <= j

----------------------------------------------------------------------------
\* The script of FinancialTreaking101.py, one run after another.  Streamlit runs
\* the script from its first line at every interaction; st.session_state is
\* kept from run to run, the module-level names are assigned anew.
\* op is the step of the run that was taken last:
\*   initialize_services (line 188), module categories (lines 401-403),
\*   the sidebar with the CSV upload (lines 406-455), then the selected page.

MaxStoreRows == 1

current_user_id == 1

UserIds == {current_user_id, 2}

Tables == {"expenses", "income", "budgets", "goals", "investments", "recurring"}

\* the tables whose rows carry a 'date' column
DatedTables == {"expenses", "income"}

StoredExpenseRows ==
    [user_id : UserIds, amount : {100}, category : {"Food"}, date : Dates,
     payment_method : {"Cash"}, fixed : {"True", "False"}]

StoredIncomeRows ==
    [user_id : UserIds, amount : {1000}, source : {"Salary"}, date : Dates, fixed : {"True"}]

\* a row of the budgets, goals, investments and recurring tables
StoredOtherRows == [user_id : UserIds, amount : {100}]

ColumnsOf(table) ==
    IF table = "expenses" THEN ExpenseColumns \cup {"user_id"}
    ELSE IF table = "income" THEN IncomeColumns \cup {"user_id"}
    ELSE {"user_id", "amount"}

\* st.session_state after lines 29-34 of the first run of a session
NewSession ==
    [data_uploaded |-> FALSE, supabase_connected |-> FALSE, mock_data |-> FALSE,
     gemini_initialized |-> FALSE]

\* the steps after which a run of the script has ended
PageOps == {"Dashboard", "entry_form", "Financial Advisor"}

\* init_supabase (lines 146-169): what create_client and the test query can do
InitSupabaseOutcomes == {"connected", "table_missing", "response_error", "exception"}

\* raised tells whether an exception leaves the function: the except branch of
\* lines 163-167 catches every Exception of the try block and returns None
init_supabase(ss, outcome) ==
    IF outcome = "connected"
    THEN [client |-> "client", session_state |-> [ss EXCEPT !.supabase_connected = TRUE],
          reported |-> {}, raised |-> FALSE]
    ELSE IF outcome = "table_missing"
    THEN [client |-> "None",
          session_state |-> [ss EXCEPT !.supabase_connected = FALSE, !.mock_data = TRUE],
          reported |-> {Msg("Table 'expenses' not found. Creating mock connection for testing.")},
          raised |-> FALSE]
    ELSE IF outcome = "response_error"
    THEN [client |-> "None", session_state |-> ss, reported |-> {Msg("Supabase connection error")},
          raised |-> FALSE]
    ELSE [client |-> "None",
          session_state |-> [ss EXCEPT !.supabase_connected = FALSE, !.mock_data = TRUE],
          reported |-> {Msg("Failed to connect to Supabase")}, raised |-> FALSE]

\* @retry(stop=stop_after_attempt(3), wait=wait_fixed(2)), line 146
stop_after_attempt == 3

\* the decorated init_supabase: tenacity calls the function again only when the
\* call raised, and raises RetryError when the last attempt raised too.
\* outcomes[k] is what create_client and the test query do at attempt k.
RECURSIVE retry_init_supabase(_, _, _, _)
retry_init_supabase(ss, outcomes, attempt, earlier) ==
    LET a == init_supabase(ss, outcomes[attempt])
    IN  IF a.raised /\ attempt < stop_after_attempt
        THEN retry_init_supabase(a.session_state, outcomes, attempt + 1,
                                 earlier \cup a.reported)
        ELSE [client |-> a.client, session_state |-> a.session_state,
              reported |-> earlier \cup a.reported, attempts |-> attempt,
              error |-> IF a.raised THEN "RetryError" ELSE "none"]

\* what the attempts of one call can do, one outcome per attempt; an attempt
\* that is never made has no outcome of its own (written "connected" here)
AttemptOutcomes ==
    {so \in [1..stop_after_attempt -> InitSupabaseOutcomes] :
        \A k \in 1..stop_after_attempt :
            k > retry_init_supabase(NewSession, so, 1, {}).attempts => so[k] = "connected"}

\* lines 173-186: what configuring and testing the Gemini model can do
InitGeminiOutcomes == {"ready", "test_error", "exception"}

init_gemini(ss, outcome) ==
    IF outcome = "ready"
    THEN [model |-> "model", session_state |-> [ss EXCEPT !.gemini_initialized = TRUE],
          reported |-> {}]
    ELSE IF outcome = "test_error"
    THEN [model |-> "None", session_state |-> [ss EXCEPT !.gemini_initialized = TRUE],
          reported |-> {Msg("Gemini API test failed")}]
    ELSE [model |-> "None", session_state |-> [ss EXCEPT !.gemini_initialized = FALSE],
          reported |-> {Msg("Failed to initialize Gemini API")}]

\* line 188, at the start of every run; the names the pages assign are gone
initialize_services ==
    /\ op \in {"none"} \cup PageOps
    /\ \E so \in AttemptOutcomes, go \in InitGeminiOutcomes :
        LET a == retry_init_supabase(session_state, so, 1, {})
            b == init_gemini(a.session_state, go)
        IN  /\ supabase' = a.client
            /\ gemini_model' = b.model
            /\ session_state' = b.session_state
            /\ reported' = a.reported \cup b.reported
            /\ error' = a.error
            /\ args' = [attempts |-> a.attempts]
    /\ op' = "initialize_services"
    /\ expenses_df' = EmptyFrame
    /\ income_df' = EmptyFrame
    /\ metrics' = NoMetrics
    /\ charts' = NoCharts
    /\ returned' = NoReturn
    /\ UNCHANGED <<store, investments_df, db, script>>

\* whether a request sent to the store raises: none is sent without a client
RequestOutcomes ==
    IF session_state.supabase_connected /\ supabase = "client" THEN BOOLEAN ELSE {FALSE}

\* the date_range argument: None, a pair of dates, or a pair of strftime texts
NoRange == [kind |-> "None", start |-> "2024-01-15", end |-> "2024-02-01"]

\* the two date inputs of a page: a period that holds the date of the rows the
\* forms add, and one that ends before it
DashboardRanges ==
    {[kind |-> "date", start |-> "2024-01-15", end |-> "2024-02-01"],
     [kind |-> "date", start |-> "2024-01-15", end |-> "2024-01-15"]}

DateRanges ==
    {NoRange} \cup DashboardRanges
        \cup {[kind |-> "str", start |-> "2024-01-15", end |-> "2024-02-01"]}

\* .eq('user_id', user_id).gte('date', start).lte('date', end): the matching rows
Query(table, user_id, date_range) ==
    SelectRows(store[table],
               {i \in 1..Len(store[table]) :
                    /\ store[table][i].user_id = user_id
                    /\ date_range.kind = "None"
                        \/ /\ StrRank(date_range.start) <= StrRank(store[table][i].date)
                           /\ StrRank(store[table][i].date) <= StrRank(date_range.end)})

\* the exception raised inside the try block of lines 227-235, if any: the
\* client is None, start_date is a str (no isoformat), the table has no 'date'
\* column, or the request itself fails
FetchFailure(table, date_range, query_raises) ==
    IF supabase = "None" THEN "AttributeError"
    ELSE IF date_range.kind = "str" THEN "AttributeError"
    ELSE IF date_range.kind = "date" /\ table \notin DatedTables THEN "APIError"
    ELSE IF query_raises THEN "APIError"
    ELSE "none"

get_financial_data_uncaught(table, user_id, date_range, query_raises) ==
    IF ~session_state.supabase_connected \/ session_state.mock_data
    THEN [frame |-> EmptyFrame, reported |-> {}, error |-> "none"]
    ELSE [frame |-> EmptyFrame, reported |-> {},
          error |-> FetchFailure(table, date_range, query_raises)]

\* get_financial_data (lines 222-238): the frame it returns, what it reports, and
\* the exception that leaves it
get_financial_data(table, user_id, date_range, query_raises) ==
    IF ~session_state.supabase_connected \/ session_state.mock_data
    THEN [frame |-> EmptyFrame, reported |-> {}, error |-> "none"]
    ELSE IF FetchFailure(table, date_range, query_raises) # "none"
    THEN [frame |-> EmptyFrame, reported |-> {Msg("Error fetching data")}, error |-> "none"]
    ELSE [frame |-> Frame(ColumnsOf(table), Query(table, user_id, date_range)),
          reported |-> {}, error |-> "none"]

\* a page that fetches one table (Budgets, Goals, Investments, Recurring, Reports)
fetch_financial_data ==
    /\ op = "none"
    /\ \E table \in Tables, user_id \in UserIds, date_range \in DateRanges,
          query_raises \in BOOLEAN :
        LET r == get_financial_data(table, user_id, date_range, query_raises)
        IN  /\ args' = [table |-> table, user_id |-> user_id, date_range |-> date_range,
                        query_raises |-> query_raises]
            /\ returned' = [kind |-> "frame", frame |-> r.frame]
            /\ reported' = r.reported
            /\ error' = r.error
    /\ op' = "get_financial_data"
    /\ UNCHANGED <<expenses_df, income_df, session_state, store, metrics, charts>>
    /\ UNCHANGED <<investments_df, supabase, gemini_model, db, script>>

\* the first entries of the three default vocabularies (lines 17-22)
DEFAULT_EXPENSE_CATEGORIES == <<"Housing", "Food">>
DEFAULT_PAYMENT_METHODS == <<"Cash", "Credit Card">>
DEFAULT_INCOME_SOURCES == <<"Salary", "Freelance">>

Elements(list) == {list[i] : i \in 1..Len(list)}

\* get_dynamic_categories (lines 205-220): the defaults unless the query gave
\* rows, then sorted(list(set(categories + default_list)))
get_dynamic_categories(table, column, user_id, default_list, query_raises) ==
    IF ~session_state.supabase_connected THEN default_list
    ELSE IF supabase = "None" \/ query_raises THEN default_list
    ELSE LET data == Query(table, user_id, NoRange)
         IN  IF Len(data) > 0
             THEN SortedKeys(GroupKeys(data, column) \cup Elements(default_list))
             ELSE default_list

\* lines 401-403: the three vocabularies of the forms
module_categories ==
    /\ op = "initialize_services"
    /\ error = "none"
    /\ \E r1 \in RequestOutcomes, r2 \in RequestOutcomes, r3 \in RequestOutcomes :
        /\ args' = [default_lists |-> <<DEFAULT_EXPENSE_CATEGORIES, DEFAULT_PAYMENT_METHODS,
                                        DEFAULT_INCOME_SOURCES>>,
                    query_raises |-> <<r1, r2, r3>>]
        /\ returned' =
              [kind |-> "categories",
               lists |-> <<get_dynamic_categories("expenses", "category", current_user_id,
                                                  DEFAULT_EXPENSE_CATEGORIES, r1),
                           get_dynamic_categories("expenses", "payment_method", current_user_id,
                                                  DEFAULT_PAYMENT_METHODS, r2),
                           get_dynamic_categories("income", "source", current_user_id,
                                                  DEFAULT_INCOME_SOURCES, r3)>>]
        /\ reported' = IF session_state.supabase_connected
                           /\ (supabase = "None" \/ r1 \/ r2 \/ r3)
                       THEN {Msg("Error fetching categories")} ELSE {}
    /\ op' = "module_categories"
    /\ error' = "none"
    /\ UNCHANGED <<expenses_df, income_df, session_state, store, metrics, charts>>
    /\ UNCHANGED <<investments_df, supabase, gemini_model, db, script>>

\* The CSV upload of the sidebar (lines 427-453)

required_columns == <<"Type", "Amount", "Date">>

\* the uploaded file: none, one pd.read_csv cannot read, or a table with some of
\* the required columns and the lower-cased Type cell of each of its rows
CsvContents == {<<>>, <<"expense">>, <<"income">>}

NoFile == [kind |-> "none", columns |-> {}, types |-> <<>>]

UploadedFiles ==
    {NoFile, [kind |-> "unreadable", columns |-> {}, types |-> <<>>]}
        \cup [kind : {"csv"}, columns : SUBSET Elements(required_columns),
              types : CsvContents]

AnyRequiredColumnPresent(file) == \E c \in Elements(required_columns) : c \in file.columns

\* all(col in df.columns for col in required_columns)
AllRequiredColumnsPresent(file) == \A c \in Elements(required_columns) : c \in file.columns

\* lines 436-447.  DataFrame.to_sql is handed the Supabase client (or None), which
\* is neither a SQLAlchemy connectable nor a DB-API connection: pandas falls back
\* to its sqlite3 path and raises at con.cursor().  So a file with an expense or
\* an income row ends in the except branch before data_uploaded is set, and only
\* a file without such rows passes.
StoreUploadAppending(ss, file) ==
    [session_state |-> [ss EXCEPT !.data_uploaded = TRUE],
     store |->
        [store EXCEPT
            !.expenses = @ \o [i \in 1..Len(SelectSeq(file.types, LAMBDA t : t = "expense")) |->
                                  [user_id |-> current_user_id, amount |-> 100,
                                   category |-> "Food", date |-> "2024-02-01",
                                   payment_method |-> "Cash", fixed |-> "False"]],
            !.income = @ \o [i \in 1..Len(SelectSeq(file.types, LAMBDA t : t = "income")) |->
                                [user_id |-> current_user_id, amount |-> 1000,
                                 source |-> "Salary", date |-> "2024-02-01",
                                 fixed |-> "True"]]],
     reported |-> {Msg("Data stored successfully!")}]

StoreUpload(ss, file) ==
    IF \E i \in 1..Len(file.types) : file.types[i] \in {"expense", "income"}
    THEN [session_state |-> ss, store |-> store, reported |-> {Msg("Error storing data")}]
    ELSE [session_state |-> [ss EXCEPT !.data_uploaded = TRUE], store |-> store,
          reported |-> {Msg("Data stored successfully!")}]

csv_upload(ss, file) ==
    IF file.kind = "none" THEN [session_state |-> ss, store |-> store, reported |-> {}]
    ELSE IF file.kind = "unreadable"
    THEN [session_state |-> ss, store |-> store, reported |-> {Msg("Error reading file")}]
    ELSE IF AllRequiredColumnsPresent(file)
    THEN IF ss.supabase_connected
         THEN [session_state |-> StoreUpload(ss, file).session_state,
               store |-> StoreUpload(ss, file).store,
               reported |-> {Msg("File uploaded successfully!")}
                                \cup StoreUpload(ss, file).reported]
         ELSE [session_state |-> ss, store |-> store,
               reported |-> {Msg("File uploaded successfully!"),
                             Msg("Data preview only (not stored - database not connected)")}]
    ELSE [session_state |-> ss, store |-> store,
          reported |-> {[text |-> "Missing required columns. Needed: ",
                         names |-> required_columns]}]

sidebar ==
    /\ op = "module_categories"
    /\ \E file \in UploadedFiles :
        LET r == csv_upload(session_state, file)
        IN  /\ args' = [file |-> file]
            /\ session_state' = r.session_state
            /\ store' = r.store
            /\ reported' = r.reported
    /\ op' = "sidebar"
    /\ error' = "none"
    /\ returned' = NoReturn
    /\ UNCHANGED <<expenses_df, income_df, metrics, charts>>
    /\ UNCHANGED <<investments_df, supabase, gemini_model, db, script>>

\* The entry forms (lines 498-519, 558-578, 605-621, 639-655, 720-737, 751-769)

Forms == {"expense", "income", "budget", "goal", "investment", "recurring"}

TableOf(form) ==
    IF form = "expense" THEN "expenses"
    ELSE IF form = "income" THEN "income"
    ELSE IF form = "budget" THEN "budgets"
    ELSE IF form = "goal" THEN "goals"
    ELSE IF form = "investment" THEN "investments"
    ELSE "recurring"

\* the amount the handler receives from st.number_input; the handlers test it
\* against 0 themselves
FormAmounts == {0, 100}

\* the dict the handler inserts
FormRow(form, amount) ==
    IF form = "expense"
    THEN [user_id |-> current_user_id, amount |-> amount, category |-> "Food",
          date |-> "2024-02-01", payment_method |-> "Cash", fixed |-> "False"]
    ELSE IF form = "income"
    THEN [user_id |-> current_user_id, amount |-> amount, source |-> "Salary",
          date |-> "2024-02-01", fixed |-> "True"]
    ELSE [user_id |-> current_user_id, amount |-> amount]

\* if submitted: ... (the insert raises when the client is None or the request fails)
submit_form(form, amount, insert_raises) ==
    IF amount <= 0
    THEN [store |-> store, reported |-> {Msg("Amount must be greater than 0")}]
    ELSE IF session_state.supabase_connected
    THEN IF supabase = "None" \/ insert_raises
         THEN [store |-> store, reported |-> {Msg("Error adding")}]
         ELSE [store |-> [store EXCEPT ![TableOf(form)] = Append(@, FormRow(form, amount))],
               reported |-> {Msg("added successfully!")}]
    ELSE [store |-> store, reported |-> {Msg("not saved (database not connected)")}]

RowsStored(st) ==
    Len(st.expenses) + Len(st.income) + Len(st.budgets) + Len(st.goals)
        + Len(st.investments) + Len(st.recurring)

entry_form ==
    /\ op = "sidebar"
    /\ \E form \in Forms, amount \in FormAmounts, insert_raises \in RequestOutcomes :
        LET r == submit_form(form, amount, insert_raises)
        IN  /\ RowsStored(r.store) <= MaxStoreRows
            /\ args' = [form |-> form, amount |-> amount, insert_raises |-> insert_raises]
            /\ store' = r.store
            /\ reported' = r.reported
    /\ op' = "entry_form"
    /\ error' = "none"
    /\ returned' = NoReturn
    /\ UNCHANGED <<expenses_df, income_df, session_state, metrics, charts>>
    /\ UNCHANGED <<investments_df, supabase, gemini_model, db, script>>

\* The Dashboard page (lines 464-493)

\* generate_mock_data('expenses') and ('income'): rows of random positive
\* amounts and random boolean flags
MockExpenseFrames ==
    {Frame(ColumnsOf("expenses"), <<r>>) :
        r \in [user_id : {current_user_id}, amount : {200}, category : {"Food"},
               date : {"2024-01-15"}, payment_method : {"Cash"}, fixed : {"True", "False"}]}

MockIncomeFrames ==
    {Frame(ColumnsOf("income"), <<r>>) :
        r \in [user_id : {current_user_id}, amount : {1000}, source : {"Salary"},
               date : {"2024-01-15"}, fixed : {"True"}]}

\* line 484: metrics['fixed_expenses'] / metrics['total_income'] has no guard.
\* Both entries are the int 0 of the dict's else branches when neither frame
\* can be summed, and python's 0 / 0 raises; when either is the sum of a column
\* it is a numpy scalar, whose division by zero gives inf or nan with a warning.
FixedShareError(e_df, i_df) ==
    IF ~Summable(e_df) /\ ~Summable(i_df) THEN DivisionError(TotalAmount(i_df)) ELSE "none"

\* the Quick Insights warnings of lines 482-484 that are shown
QuickInsights(e_df, i_df) ==
    LET m == MetricsDict(e_df, i_df)
    IN  (IF m.savings_rate.num * 1 < 10 * m.savings_rate.den
         THEN {Msg("Your savings rate is low.")} ELSE {})
        \cup (IF m.expense_ratio.num > 80 * m.expense_ratio.den
              THEN {Msg("High expense ratio!")} ELSE {})
        \cup (IF FixedShareError(e_df, i_df) = "none"
                  /\ \/ m.total_income > 0 /\ 2 * m.fixed_expenses > m.total_income
                     \/ m.total_income = 0 /\ m.fixed_expenses > 0
              THEN {Msg("Your fixed expenses are high (>50% of income).")} ELSE {})

dashboard_page ==
    /\ op = "sidebar"
    /\ \E date_range \in DashboardRanges,
          e_raises \in RequestOutcomes, i_raises \in RequestOutcomes,
          mock_e \in MockExpenseFrames, mock_i \in MockIncomeFrames, order \in MergeKeyOrders :
        LET e0 == get_financial_data("expenses", current_user_id, date_range, e_raises)
            i0 == get_financial_data("income", current_user_id, date_range, i_raises)
            mock == session_state.mock_data /\ (empty(e0.frame) \/ empty(i0.frame))
            e_df == IF mock /\ empty(e0.frame) THEN mock_e ELSE e0.frame
            i_df == IF mock /\ empty(i0.frame) THEN mock_i ELSE i0.frame
            raised == IF MetricsError(e_df, i_df) # "none" THEN MetricsError(e_df, i_df)
                      ELSE FixedShareError(e_df, i_df)
        IN  /\ args' = [date_range |-> date_range, query_raises |-> <<e_raises, i_raises>>]
            /\ expenses_df' = e_df
            /\ income_df' = i_df
            /\ error' = raised
            /\ metrics' = IF MetricsError(e_df, i_df) = "none" THEN MetricsDict(e_df, i_df)
                          ELSE NoMetrics
            /\ charts' = IF raised = "none"
                         THEN ExpenseCharts(e_df) @@ IncomeCharts(i_df)
                                  @@ CashFlowChart(e_df, i_df, order)
                         ELSE NoCharts
            /\ reported' = e0.reported \cup i0.reported
                              \cup (IF mock THEN {Msg("Displaying mock data for demonstration purposes")}
                                    ELSE {})
                              \cup (IF MetricsError(e_df, i_df) = "none"
                                    THEN QuickInsights(e_df, i_df) ELSE {})
    /\ op' = "Dashboard"
    /\ returned' = NoReturn
    /\ UNCHANGED <<session_state, store>>
    /\ UNCHANGED <<investments_df, supabase, gemini_model, db, script>>

\* the first run of a session, over a store that holds no rows yet
Init ==
    /\ session_state = NewSession
    /\ store = StoreOf(EmptyFrame, EmptyFrame)
    /\ supabase = "None"
    /\ gemini_model = "None"
    /\ op = "none"
    /\ error = "none"
    /\ expenses_df = EmptyFrame
    /\ income_df = EmptyFrame
    /\ investments_df = EmptyFrame
    /\ metrics = NoMetrics
    /\ charts = NoCharts
    /\ returned = NoReturn
    /\ args = NoArgs
    /\ reported = {}
    /\ db = NoDb
    /\ script = NoScript

Next ==
    \/ initialize_services
    \/ module_categories
    \/ sidebar
    \/ entry_form
    \/ dashboard_page

Spec == Init /\ [][Next]_vars

----------------------------------------------------------------------------
\* get_financial_data under every condition of the session and the store

MaxFetchRows == 2

\* the flags and the client as the runs of the script leave them: a client
\* exists only in a run that connected, and the flag of an earlier run may
\* outlive the client (init_supabase, lines 159-160)
FetchSessions ==
    {ss \in [data_uploaded : {FALSE}, supabase_connected : BOOLEAN, mock_data : BOOLEAN,
             gemini_initialized : {TRUE}] : TRUE}

FetchStores ==
    {[StoreOf(EmptyFrame, EmptyFrame) EXCEPT !.expenses = e, !.income = i, !.budgets = b] :
        e \in SeqsUpTo({r \in StoredExpenseRows : r.fixed = "True"}, MaxFetchRows),
        i \in {<<>>, <<[user_id |-> current_user_id, amount |-> 1000, source |-> "Salary",
                        date |-> "2024-01-15", fixed |-> "True"]>>},
        b \in {<<>>, <<[user_id |-> current_user_id, amount |-> 100]>>}}

InitFetch ==
    /\ session_state \in FetchSessions
    /\ supabase \in IF session_state.supabase_connected THEN {"client", "None"} ELSE {"None"}
    /\ store \in FetchStores
    /\ gemini_model = "model"
    /\ op = "none"
    /\ error = "none"
    /\ expenses_df = EmptyFrame
    /\ income_df = EmptyFrame
    /\ investments_df = EmptyFrame
    /\ metrics = NoMetrics
    /\ charts = NoCharts
    /\ returned = NoReturn
    /\ args = NoArgs
    /\ reported = {}
    /\ db = NoDb
    /\ script = NoScript

NextFetch == fetch_financial_data

SpecFetch == InitFetch /\ [][NextFetch]_vars

Fetched == op = "get_financial_data"

\* C13: get_financial_data returns a frame and raises nothing, whatever the
\* table, user and date_range and whatever the condition of the store; the frame
\* is empty when the session is not connected, in mock mode, without a client,
\* when the request raises, and when no stored row matches.
C13_FetchNeverRaises ==
    Fetched =>
        /\ error = "none"
        /\ returned.kind = "frame"
        /\ returned.frame.columns \subseteq ColumnsOf(args.table)
        /\ (\/ ~session_state.supabase_connected
            \/ session_state.mock_data
            \/ supabase = "None"
            \/ args.query_raises
            \/ \A i \in 1..Len(store[args.table]) :
                    store[args.table][i].user_id # args.user_id)
                => empty(returned.frame)

C13_Witness ==
    /\ Fetched
    /\ session_state.supabase_connected
    /\ ~session_state.mock_data
    /\ supabase = "None"
    /\ Len(store.expenses) = 2
    /\ args.table = "expenses"
    /\ args.user_id = current_user_id
    /\ store.expenses[1].user_id = current_user_id
    /\ empty(returned.frame)
    /\ reported = {Msg("Error fetching data")}
    /\ error = "none"

----------------------------------------------------------------------------
\* The Reports page (lines 701-715) and generate_pdf_report (lines 339-365),
\* under every condition of the session and the store (the states of InitFetch)

\* datetime.now(), as a date
today == "2024-02-01"

ReportTypes == {"Monthly", "Yearly", "Custom"}

\* the start dates the date_input of a Custom report can hold
CustomStarts == {"2024-01-01", "2024-02-01"}

\* lines 704-710: a Custom report takes the two dates of the date inputs; a
\* Monthly and a Yearly report build their dates with strftime, as texts
ReportRange(report_type, custom_start) ==
    IF report_type = "Custom"
    THEN [kind |-> "date", start |-> custom_start, end |-> today]
    ELSE [kind |-> "str",
          start |-> IF report_type = "Monthly" THEN "2024-02-01" ELSE "2024-01-01",
          end |-> today]

NoPdf == [kind |-> "None"]

\* generate_pdf_report: the lines written into the PDF, or None when an
\* exception is caught (lines 363-365).  output_raises: pdf.output(dest='S')
\* returns a str in PyFPDF and a bytearray, which has no encode, in fpdf2.
generate_pdf_report(report_type, user_id, date_range, e_raises, i_raises, output_raises) ==
    LET e0 == get_financial_data("expenses", user_id, date_range, e_raises)
        i0 == get_financial_data("income", user_id, date_range, i_raises)
        fetched == e0.reported \cup i0.reported
    IN  IF MetricsError(e0.frame, i0.frame) # "none" \/ output_raises
        THEN [pdf |-> NoPdf, reported |-> fetched \cup {Msg("Error generating report")}]
        ELSE [pdf |-> [kind |-> "pdf",
                       report_type |-> report_type,
                       period |-> <<date_range.start, date_range.end>>,
                       total_income |-> MetricsDict(e0.frame, i0.frame).total_income,
                       total_expenses |-> MetricsDict(e0.frame, i0.frame).total_expenses,
                       net_income |-> MetricsDict(e0.frame, i0.frame).net_income],
              reported |-> fetched]

\* the Reports page with the button "Generate Report" pressed
reports_page ==
    /\ op = "none"
    /\ \E report_type \in ReportTypes, custom_start \in CustomStarts,
          e_raises \in RequestOutcomes, i_raises \in RequestOutcomes, output_raises \in BOOLEAN :
        LET date_range == ReportRange(report_type, custom_start)
            r == generate_pdf_report(report_type, current_user_id, date_range,
                                     e_raises, i_raises, output_raises)
        IN  /\ args' = [report_type |-> report_type, date_range |-> date_range,
                        query_raises |-> <<e_raises, i_raises>>,
                        output_raises |-> output_raises]
            /\ IF session_state.supabase_connected
               THEN /\ returned' = r.pdf
                    /\ reported' = r.reported
               ELSE /\ returned' = NoReturn
                    /\ reported' = {Msg("Report generation unavailable (database not connected)")}
    /\ op' = "Reports"
    /\ error' = "none"
    /\ UNCHANGED <<expenses_df, income_df, session_state, store, metrics, charts>>
    /\ UNCHANGED <<investments_df, supabase, gemini_model, db, script>>

NextReport == reports_page

SpecReport == InitFetch /\ [][NextReport]_vars

\* the sum of the amounts of the user's stored rows dated from start to end
StoredTotal(table, user_id, start, end) ==
    SumAmount(SelectSeq(store[table],
                        LAMBDA r : /\ r.user_id = user_id
                                   /\ StrRank(start) <= StrRank(r.date)
                                   /\ StrRank(r.date) <= StrRank(end)))

\* C29: when the store is connected, a Monthly and a Yearly report write the
\* sums over the user's stored income and expense rows dated from the first day
\* of the month (year) through today, as a Custom report over the same dates.
C29_PeriodReportSumsTheStoredRows ==
    (/\ op = "Reports"
     /\ session_state.supabase_connected
     /\ ~session_state.mock_data
     /\ supabase = "client"
     /\ args.query_raises = <<FALSE, FALSE>>
     /\ returned # NoPdf) =>
        LET start == args.date_range.start
        IN  /\ returned.total_income = StoredTotal("income", current_user_id, start, today)
            /\ returned.total_expenses = StoredTotal("expenses", current_user_id, start, today)
            /\ returned.net_income =
                   StoredTotal("income", current_user_id, start, today)
                       - StoredTotal("expenses", current_user_id, start, today)

----------------------------------------------------------------------------
\* Properties of the script of FinancialTreaking101.py (Spec)

\* C14: after every run of initialize_services, a session that is not connected
\* is in mock mode: supabase_connected = false implies mock_data = true.
C14_DisconnectedMeansMock ==
    op = "initialize_services" =>
        (~session_state.supabase_connected => session_state.mock_data)

\* the required columns that a file lacks
MissingColumns(file) == {"Type", "Amount", "Date"} \ file.columns

\* the sidebar has just handled an uploaded CSV file that lacks a required column
UploadLackingColumns ==
    /\ op' = "sidebar"
    /\ args'.file.kind = "csv"
    /\ MissingColumns(args'.file) # {}

\* C16 as stated: a CSV upload that lacks a required column writes no row,
\* leaves data_uploaded as it was, and reports an error that names the columns
\* missing from the file.
C16_ErrorNamesTheMissingColumns ==
    [][UploadLackingColumns =>
        /\ store' = store
        /\ session_state'.data_uploaded = session_state.data_uploaded
        /\ \E m \in reported' : Elements(m.names) = MissingColumns(args'.file)]_vars

\* C16 amended: a CSV upload that lacks a required column writes no row, leaves
\* data_uploaded as it was, and reports one error, which lists the three
\* required columns Type, Amount, Date whichever of them the file lacks.
C16_ErrorNamesTheRequiredColumns ==
    [][UploadLackingColumns =>
        /\ store' = store
        /\ session_state' = session_state
        /\ reported' = {[text |-> "Missing required columns. Needed: ",
                         names |-> <<"Type", "Amount", "Date">>]}]_vars

C16_Witness ==
    /\ op = "sidebar"
    /\ args.file.kind = "csv"
    /\ args.file.columns = {"Type", "Amount"}
    /\ args.file.types = <<"expense">>
    /\ session_state.supabase_connected
    /\ supabase = "client"
    /\ ~session_state.data_uploaded
    /\ \E m \in reported : m.names = <<"Type", "Amount", "Date">>

\* C18: rendering the Dashboard page raises no division by zero, also when both
\* collections are empty and mock data is disabled (total_income = 0).
C18_DashboardNeverDividesByZero ==
    op = "Dashboard" => error # "ZeroDivisionError"

----------------------------------------------------------------------------
\* The script of app_1.py, run by the browser sessions of one server process
\* over the one file finance.db.  Every run starts with init_db (line 111).
\* sqlite3 opens no transaction for DROP TABLE and CREATE TABLE, so each
\* statement of init_db is committed on its own: the tables are dropped
\* (lines 20-26), then created (lines 28-56).  db.exists tells whether the
\* tables are there; a statement on a dropped table raises OperationalError.
\* script[s].pc is the place of session s in its run:
\*   idle, dropped, created, sidebar (lines 130-133 done),
\*   categories (lines 150-152 done),
\*   submitted (a form inserted its row), done, failed (the run raised),
\*   stopped (st.stop, line 113).

MaxDbRows == 2

Sessions == {"A", "B"}

App1Forms == {"expense", "income"}

App1TableOf(form) == IF form = "expense" THEN "expenses" ELSE "income"

\* the tuple the form inserts (lines 278-279, 316-317)
App1Row(form, amount) ==
    IF form = "expense"
    THEN [user_id |-> current_user_id, amount |-> amount, category |-> "Food",
          date |-> "2024-01-15", payment_method |-> "Cash"]
    ELSE [user_id |-> current_user_id, amount |-> amount, source |-> "Freelance",
          date |-> "2024-01-15"]

\* the names of a run that has just started
NewRun(pc) ==
    [pc |-> pc, page |-> "none", submitted |-> FALSE, amount |-> 0,
     categories |-> <<>>, read |-> <<>>]

\* SELECT ... FROM table WHERE user_id = ?
RowsOfUser(table, user_id) == SelectSeq(db[table], LAMBDA r : r.user_id = user_id)

\* get_dynamic_categories of app_1.py (lines 145-148): the stored distinct
\* non-null values when there are any, else the defaults
app1_get_dynamic_categories(table, column, user_id, default_list) ==
    LET categories == FirstSeenKeys(RowsOfUser(table, user_id), column)
    IN  IF Len(categories) > 0 THEN categories ELSE default_list

\* EXPENSE_CATEGORIES, PAYMENT_METHODS, INCOME_SOURCES (lines 150-152)
App1Vocabularies ==
    <<app1_get_dynamic_categories("expenses", "category", current_user_id,
                                  DEFAULT_EXPENSE_CATEGORIES),
      app1_get_dynamic_categories("expenses", "payment_method", current_user_id,
                                  DEFAULT_PAYMENT_METHODS),
      app1_get_dynamic_categories("income", "source", current_user_id,
                                  DEFAULT_INCOME_SOURCES)>>

\* retries = 5 (line 15)
retries == 5

\* what an attempt of init_db does: it goes through, or a statement raises
\* sqlite3.OperationalError, 'database is locked' or another one
InitDbOutcomes == {"ok", "locked", "other"}

\* init_db (lines 14-67), attempt = 0 .. retries - 1: the connection it returns,
\* the exception that leaves it, what it reports and the attempts it made.  The
\* two lines after the loop (66-67) are for a loop that runs out.
RECURSIVE init_db(_, _)
init_db(outcomes, attempt) ==
    IF attempt >= retries
    THEN [conn |-> "None", error |-> "none", attempts |-> attempt,
          reported |-> {Msg("Failed to initialize database after multiple attempts.")}]
    ELSE IF outcomes[attempt + 1] = "ok"
    THEN [conn |-> "conn", error |-> "none", attempts |-> attempt + 1, reported |-> {}]
    ELSE IF outcomes[attempt + 1] = "locked" /\ attempt < retries - 1
    THEN init_db(outcomes, attempt + 1)
    ELSE [conn |-> "None", error |-> "OperationalError", attempts |-> attempt + 1,
          reported |-> {Msg("Database error")}]

\* one outcome per attempt; an attempt that is never made has no outcome of
\* its own (written "ok" here)
InitDbAttempts ==
    {o \in [1..retries -> InitDbOutcomes] :
        \A k \in 1..retries : k > init_db(o, 0).attempts => o[k] = "ok"}

\* conn = init_db() (line 111) up to the DROP TABLE statements of the attempt
\* that goes through (lines 17-26); a failed attempt fails at its first
\* statement, before it has dropped a table.  if conn is None: st.stop()
init_db_drop(s) ==
    /\ script[s].pc \in {"idle", "done", "failed", "stopped"}
    /\ \E outcomes \in InitDbAttempts :
        LET r == init_db(outcomes, 0)
        IN  /\ args' = [outcomes |-> outcomes, attempts |-> r.attempts]
            /\ reported' = r.reported
            /\ error' = r.error
            /\ IF r.conn = "conn"
               THEN /\ db' = [exists |-> FALSE, expenses |-> <<>>, income |-> <<>>,
                               budgets |-> <<>>]
                    /\ script' = [script EXCEPT ![s] = NewRun("dropped")]
               ELSE /\ db' = db
                    /\ script' = [script EXCEPT
                                     ![s] = NewRun(IF r.error = "none" THEN "stopped"
                                                   ELSE "failed")]
    /\ op' = "init_db"

\* init_db, lines 28-58: CREATE TABLE IF NOT EXISTS, the user row, commit
init_db_create(s) ==
    /\ script[s].pc = "dropped"
    /\ db' = [db EXCEPT !.exists = TRUE]
    /\ script' = [script EXCEPT ![s].pc = "created"]
    /\ op' = "init_db"
    /\ error' = "none"
    /\ reported' = {}
    /\ args' = NoArgs

\* the file of the sidebar's uploader: none, one pd.read_csv cannot read, a
\* table without a 'type' column, one whose only row has an unrecognised type,
\* one whose only row has an empty type cell (NaN), one with an expense row
App1Files == {"none", "unreadable", "no_type_column", "unrecognised_type", "empty_type",
              "expense_row"}

\* DELETE FROM table WHERE user_id = ? for every table (lines 73-78)
DeleteRowsOf(d, user_id) ==
    [d EXCEPT !.expenses = SelectSeq(@, LAMBDA r : r.user_id # user_id),
              !.income = SelectSeq(@, LAMBDA r : r.user_id # user_id),
              !.budgets = SelectSeq(@, LAMBDA r : r.user_id # user_id)]

\* load_csv_to_db (lines 70-109): the tables after the call, the exception that
\* leaves it and what it reports.  The rows of the user are deleted before the
\* first row of the file is looked at.  row.get('type', '').lower() is outside
\* the try: a NaN cell has no lower(), the AttributeError ends the call before
\* conn.commit(), and the open transaction is rolled back with the connection.
load_csv_to_db(file, user_id) ==
    IF file = "unreadable"
    THEN [db |-> db, error |-> "ParserError", reported |-> {}]
    ELSE IF ~db.exists
    THEN [db |-> db, error |-> "OperationalError", reported |-> {}]
    ELSE IF file = "empty_type"
    THEN [db |-> db, error |-> "AttributeError", reported |-> {}]
    ELSE IF file = "expense_row"
    THEN [db |-> [DeleteRowsOf(db, user_id) EXCEPT
                     !.expenses = Append(@, [user_id |-> user_id, amount |-> 100,
                                             category |-> "Food", date |-> "2024-01-15",
                                             payment_method |-> "Cash"])],
          error |-> "none", reported |-> {}]
    ELSE [db |-> DeleteRowsOf(db, user_id), error |-> "none", reported |-> {}]

\* the sidebar (lines 130-133): if uploaded_file: load_csv_to_db(conn, uploaded_file, 1)
app1_sidebar(s) ==
    /\ script[s].pc = "created"
    /\ \E file \in App1Files :
        LET r == IF file = "none" THEN [db |-> db, error |-> "none", reported |-> {}]
                 ELSE load_csv_to_db(file, 1)
        IN  /\ Len(r.db.expenses) + Len(r.db.income) <= MaxDbRows
            /\ db' = r.db
            /\ error' = r.error
            /\ reported' = IF file # "none" /\ r.error = "none"
                           THEN {Msg("Data loaded successfully!")} ELSE {}
            /\ args' = [file |-> file, user_id |-> 1]
            /\ script' = [script EXCEPT ![s].pc = IF r.error = "none" THEN "sidebar"
                                                  ELSE "failed"]
    /\ op' = "load_csv_to_db"

\* lines 150-152
app1_module_categories(s) ==
    /\ script[s].pc = "sidebar"
    /\ script' = IF db.exists
                 THEN [script EXCEPT ![s].pc = "categories", ![s].categories = App1Vocabularies]
                 ELSE [script EXCEPT ![s].pc = "failed"]
    /\ op' = "get_dynamic_categories"
    /\ error' = IF db.exists THEN "none" ELSE "DatabaseError"
    /\ reported' = {}
    /\ args' = NoArgs
    /\ UNCHANGED db

\* the names a form assigns again after its insert: the Expenses form
\* EXPENSE_CATEGORIES and PAYMENT_METHODS (lines 282-283), the Income form
\* INCOME_SOURCES (line 320); the others keep the value of lines 150-152
Reread(form, old, new) ==
    IF form = "expense" THEN <<new[1], new[2], old[3]>> ELSE <<old[1], old[2], new[3]>>

\* if submitted: INSERT, commit, st.success, and the vocabulary read again
\* (lines 276-283, 314-320); the handlers do not look at the amount
app1_entry_form(s) ==
    /\ script[s].pc = "categories"
    /\ \E form \in App1Forms, amount \in FormAmounts :
        IF db.exists
        THEN /\ Len(db.expenses) + Len(db.income) < MaxDbRows
             /\ db' = [db EXCEPT ![App1TableOf(form)] = Append(@, App1Row(form, amount))]
             /\ script' = [script EXCEPT ![s].pc = "submitted", ![s].page = form,
                                         ![s].submitted = TRUE, ![s].amount = amount,
                                         ![s].categories = Reread(form, @, App1Vocabularies')]
             /\ reported' = {Msg("added!")}
             /\ args' = [form |-> form, amount |-> amount, insert_raises |-> FALSE]
        ELSE /\ db' = db
             /\ script' = [script EXCEPT ![s].pc = "failed", ![s].page = form,
                                         ![s].amount = amount]
             /\ reported' = {}
             /\ args' = [form |-> form, amount |-> amount, insert_raises |-> TRUE]
    /\ error' = IF db.exists THEN "none" ELSE "OperationalError"
    /\ op' = "entry_form"

\* the analysis query of the page (lines 289-291, 326-328); the date a form
\* stores is today, the last day of the range the query asks for
app1_page_query(s) ==
    /\ script[s].pc \in {"categories", "submitted"}
    /\ \E page \in App1Forms :
        /\ script[s].submitted => page = script[s].page
        /\ script' = IF db.exists
                     THEN [script EXCEPT ![s].pc = "done", ![s].page = page,
                                         ![s].read = RowsOfUser(App1TableOf(page), current_user_id)]
                     ELSE [script EXCEPT ![s].pc = "failed", ![s].page = page]
    /\ op' = "page_query"
    /\ error' = IF db.exists THEN "none" ELSE "DatabaseError"
    /\ reported' = {}
    /\ args' = NoArgs
    /\ UNCHANGED db

\* The Budgets page (lines 340-370)

MaxBudgetRows == 2

\* datetime.now().strftime("%Y-%m") (line 358); the rows the forms and the
\* uploaded file store are dated 2024-01-15
current_month == <<2024, 1>>

\* strftime('%Y-%m', e.date)
YearMonth(date) == <<ParseDate(date)[1], ParseDate(date)[2]>>

\* the row of INSERT OR REPLACE INTO budgets (user_id, category, limit_amount,
\* period) (lines 352-353); budget_id is left to SQLite
BudgetRow(limit_amount) ==
    [user_id |-> current_user_id, category |-> "Food", limit_amount |-> limit_amount,
     period |-> "Monthly"]

\* INSERT OR REPLACE: a row is replaced only when the new one collides with it
\* on a PRIMARY KEY or UNIQUE column.  The one such column of budgets is
\* budget_id (lines 34-37), which the statement leaves to SQLite: the new row
\* gets a fresh id and is added.
InsertOrReplace(budgets, row) == Append(budgets, row)

\* the rows of FROM budgets b LEFT JOIN expenses e ON b.category = e.category
\* AND strftime('%Y-%m', e.date) = ? WHERE b.user_id = ? that fall into the
\* group (category, limit_amount): one per pair of a budget row and an expense
\* row that match, whoever the expense belongs to
RECURSIVE JoinedAmount(_, _, _)
JoinedAmount(budgets, category, limit_amount) ==
    IF Len(budgets) = 0 THEN 0
    ELSE LET b == budgets[Len(budgets)]
             matching == SelectSeq(db.expenses,
                                   LAMBDA e : /\ e.category = b.category
                                              /\ YearMonth(e.date) = current_month)
         IN  JoinedAmount(SubSeq(budgets, 1, Len(budgets) - 1), category, limit_amount)
                 + (IF b.category = category /\ b.limit_amount = limit_amount
                    THEN SumAmount(matching) ELSE 0)

\* GROUP BY b.category, b.limit_amount: the groups, in ascending order
RECURSIVE SortedGroups(_)
SortedGroups(G) ==
    IF G = {} THEN <<>>
    ELSE LET g == CHOOSE x \in G : \A y \in G :
                      \/ StrRank(x[1]) < StrRank(y[1])
                      \/ StrRank(x[1]) = StrRank(y[1]) /\ x[2] <= y[2]
         IN  <<g>> \o SortedGroups(G \ {g})

\* budget_status (lines 359-365): category, limit_amount, COALESCE(SUM(e.amount), 0)
budget_status(user_id) ==
    LET mine == RowsOfUser("budgets", user_id)
        groups == SortedGroups({<<mine[i].category, mine[i].limit_amount>> : i \in 1..Len(mine)})
    IN  [i \in 1..Len(groups) |->
            [category |-> groups[i][1], limit_amount |-> groups[i][2],
             spent |-> JoinedAmount(mine, groups[i][1], groups[i][2])]]

\* the page: the form of tab1 (submitted or not), then the query of tab2
app1_budgets_page(s) ==
    /\ script[s].pc = "categories"
    /\ \E submitted \in BOOLEAN, limit_amount \in FormAmounts :
        /\ ~submitted => limit_amount = 0
        /\ submitted => Len(db.budgets) < MaxBudgetRows
        /\ IF db.exists
           THEN /\ db' = IF submitted
                         THEN [db EXCEPT !.budgets = InsertOrReplace(@, BudgetRow(limit_amount))]
                         ELSE db
                /\ script' = [script EXCEPT ![s].pc = "done", ![s].page = "budget",
                                            ![s].submitted = submitted,
                                            ![s].amount = limit_amount,
                                            ![s].read = budget_status(current_user_id)']
                /\ reported' = IF submitted THEN {Msg("Budget saved!")} ELSE {}
                /\ error' = "none"
           ELSE /\ db' = db
                /\ script' = [script EXCEPT ![s].pc = "failed", ![s].page = "budget"]
                /\ reported' = {}
                /\ error' = IF submitted THEN "OperationalError" ELSE "DatabaseError"
        /\ args' = [session |-> s, form |-> "budget", submitted |-> submitted,
                    limit_amount |-> limit_amount]
    /\ op' = "budgets_page"

InitApp1 ==
    /\ db = NoDb
    /\ script = [s \in Sessions |-> NewRun("idle")]
    /\ op = "none"
    /\ error = "none"
    /\ reported = {}
    /\ session_state = NewSession
    /\ store = StoreOf(EmptyFrame, EmptyFrame)
    /\ supabase = "None"
    /\ gemini_model = "None"
    /\ expenses_df = EmptyFrame
    /\ income_df = EmptyFrame
    /\ investments_df = EmptyFrame
    /\ metrics = NoMetrics
    /\ charts = NoCharts
    /\ returned = NoReturn
    /\ args = NoArgs

NextApp1 ==
    \E s \in Sessions :
        /\ \/ init_db_drop(s)
           \/ init_db_create(s)
           \/ app1_sidebar(s)
           \/ app1_module_categories(s)
           \/ app1_entry_form(s)
           \/ app1_page_query(s)
        /\ UNCHANGED <<expenses_df, income_df, session_state, store, metrics, charts>>
        /\ UNCHANGED <<investments_df, returned, supabase, gemini_model>>

SpecApp1 == InitApp1 /\ [][NextApp1]_vars

\* the runs of two sessions that open the Budgets page
NextBudget ==
    \E s \in Sessions :
        /\ \/ init_db_drop(s)
           \/ init_db_create(s)
           \/ app1_sidebar(s)
           \/ app1_module_categories(s)
           \/ app1_budgets_page(s)
        /\ UNCHANGED <<expenses_df, income_df, session_state, store, metrics, charts>>
        /\ UNCHANGED <<investments_df, returned, supabase, gemini_model>>

SpecBudget == InitApp1 /\ [][NextBudget]_vars

----------------------------------------------------------------------------
\* Properties of the script of app_1.py (SpecApp1)

\* C15: the lists get_dynamic_categories returns contain every entry of the
\* default vocabulary passed to it; stored values never replace the defaults.
C15_DefaultsAlwaysIncluded ==
    \A s \in Sessions :
        Len(script[s].categories) = 3 =>
            /\ Elements(DEFAULT_EXPENSE_CATEGORIES) \subseteq Elements(script[s].categories[1])
            /\ Elements(DEFAULT_PAYMENT_METHODS) \subseteq Elements(script[s].categories[2])
            /\ Elements(DEFAULT_INCOME_SOURCES) \subseteq Elements(script[s].categories[3])

C19_OwnRowsSurviveTheOtherSession ==
    \A s \in Sessions :
        (script[s].pc = "done" /\ script[s].submitted) =>
            \E i \in 1..Len(script[s].read) :
                script[s].read[i] = App1Row(script[s].page, script[s].amount)

\* C20: a row inserted through an entry form stays in its table through every
\* later step and run (the model has no store delete and no CSV replace).
C20_RowsPersist ==
    [][\A t \in {"expenses", "income"} :
          \A i \in 1..Len(db[t]) : \E j \in 1..Len(db'[t]) : db'[t][j] = db[t][i]]_vars

----------------------------------------------------------------------------
\* The Financial Advisor page (lines 798-840) and get_financial_advice
\* (lines 367-397), over the runs of one session

\* what gemini_model.generate_content(prompt) does: it returns a response with a
\* text, returns a response whose error is set, or raises
GenerateOutcomes == {"text", "response_error", "raises"}

\* the text area: left empty, or a question
Queries == {"", "How can I save more?"}

\* the dict user_data of lines 809-819
UserData(e_df, i_df) ==
    [total_expenses |-> TotalAmount(e_df),
     total_income |-> TotalAmount(i_df),
     expense_categories |-> IF "category" \in e_df.columns /\ ~empty(e_df)
                            THEN FirstSeenKeys(e_df.rows, "category") ELSE <<>>,
     income_sources |-> IF "source" \in i_df.columns /\ ~empty(i_df)
                        THEN FirstSeenKeys(i_df.rows, "source") ELSE <<>>,
     savings_rate |-> Ratio(TotalAmount(i_df) - TotalAmount(e_df), TotalAmount(i_df))]

\* get_financial_advice: the value it returns, what it reports and the exception
\* that leaves it.  Everything after the test of the flag is inside try ...
\* except Exception; generate_content of a model that is None raises
\* AttributeError there.
get_financial_advice(user_data, query, outcome) ==
    IF ~session_state.gemini_initialized
    THEN [value |-> [kind |-> "text", text |-> "Financial advice unavailable"],
          reported |-> {}, error |-> "none"]
    ELSE IF gemini_model = "None" \/ outcome = "raises"
    THEN [value |-> [kind |-> "text", text |-> "Unable to provide advice at this time"],
          reported |-> {Msg("Error getting financial advice")}, error |-> "none"]
    ELSE IF outcome = "response_error"
    THEN [value |-> [kind |-> "text", text |-> "Error generating advice"],
          reported |-> {}, error |-> "none"]
    ELSE [value |-> [kind |-> "text", text |-> "response.text"],
          reported |-> {}, error |-> "none"]

financial_advisor_page ==
    /\ op = "sidebar"
    /\ \E e_raises \in RequestOutcomes, i_raises \in RequestOutcomes,
          mock_e \in MockExpenseFrames, mock_i \in MockIncomeFrames,
          query \in Queries, outcome \in GenerateOutcomes :
        LET e0 == get_financial_data("expenses", current_user_id, NoRange, e_raises)
            i0 == get_financial_data("income", current_user_id, NoRange, i_raises)
            mock == session_state.mock_data /\ (empty(e0.frame) \/ empty(i0.frame))
            e_df == IF mock /\ empty(e0.frame) THEN mock_e ELSE e0.frame
            i_df == IF mock /\ empty(i0.frame) THEN mock_i ELSE i0.frame
            user_data == UserData(e_df, i_df)
            advice == get_financial_advice(user_data, query, outcome)
        IN  /\ expenses_df' = e_df
            /\ income_df' = i_df
            /\ args' = [user_data |-> user_data, query |-> query, outcome |-> outcome]
            /\ IF query # ""
               THEN /\ returned' = advice.value
                    /\ error' = advice.error
                    /\ reported' = e0.reported \cup i0.reported \cup advice.reported
               ELSE /\ returned' = NoReturn
                    /\ error' = "none"
                    /\ reported' = e0.reported \cup i0.reported
                                       \cup {Msg("Please enter a question or financial goal")}
    /\ op' = "Financial Advisor"
    /\ metrics' = NoMetrics
    /\ charts' = NoCharts
    /\ UNCHANGED <<session_state, store>>
    /\ UNCHANGED <<investments_df, supabase, gemini_model, db, script>>

NextAdvisor ==
    \/ initialize_services
    \/ module_categories
    \/ sidebar
    \/ financial_advisor_page

SpecAdvisor == Init /\ [][NextAdvisor]_vars

\* C30: after every run of initialize_services, gemini_initialized = true implies
\* that gemini_model is not None; and in every state of the two,
\* get_financial_advice returns a text and raises nothing.
C30_InitializedMeansModelAndAdviceIsText ==
    /\ session_state.gemini_initialized => gemini_model # "None"
    /\ (op = "Financial Advisor" /\ args.query # "") =>
            /\ returned.kind = "text"
            /\ error = "none"

----------------------------------------------------------------------------
\* Properties of the services of FinancialTreaking101.py over the runs of one
\* session (Spec)

\* C21: a failed connection attempt is repeated: the service gives up (reports
\* the failure, supabase_connected = false, mock_data = true) only after the
\* third failed attempt.
C21_GivesUpOnlyAfterThreeAttempts ==
    (op = "initialize_services" /\ Msg("Failed to connect to Supabase") \in reported) =>
        args.attempts = stop_after_attempt

\* C24: after any sequence of runs and connection outcomes,
\* supabase_connected = true implies that the client of the current run is
\* not None.
C24_ConnectedMeansClient ==
    session_state.supabase_connected => supabase # "None"

\* C25: after any sequence of runs, supabase_connected and mock_data are never
\* both true.
C25_NeverConnectedAndMock ==
    ~(session_state.supabase_connected /\ session_state.mock_data)

\* C22: init_db makes at most 5 attempts and tries again only after 'database
\* is locked'; when the database is still locked at the last attempt it reports
\* 'Failed to initialize database after multiple attempts.' and returns None
\* (the script stops) instead of raising.
C22_LockedToTheEndReturnsNone ==
    (op = "init_db" /\ args # NoArgs) =>
        /\ args.attempts <= retries
        /\ \A k \in 1..(args.attempts - 1) : args.outcomes[k] = "locked"
        /\ (args.attempts = retries /\ args.outcomes[retries] = "locked") =>
                /\ error = "none"
                /\ Msg("Failed to initialize database after multiple attempts.") \in reported

\* C23: load_csv_to_db aborts a malformed upload without writing: for a CSV
\* without a type column, or with rows whose type is empty or unrecognised, the
\* rows of the tables are the same after the call as before it.
C23_MalformedUploadWritesNothing ==
    [][(/\ op' = "load_csv_to_db"
        /\ args'.file \in {"no_type_column", "unrecognised_type", "empty_type"}) =>
            db' = db]_vars

----------------------------------------------------------------------------
\* Properties of the Budgets page of app_1.py (SpecBudget)

\* C26: after any sequence of 'Save Budget' submissions the budgets table holds
\* at most one row per (user_id, category): a budget saved for a category that
\* has one replaces it.
C26_OneBudgetPerCategory ==
    \A i, j \in 1..Len(db.budgets) :
        (db.budgets[i].user_id = db.budgets[j].user_id
            /\ db.budgets[i].category = db.budgets[j].category) => i = j

\* the sum of the amounts of the user's own expenses of a category dated in the
\* current month
OwnSpent(user_id, category) ==
    SumAmount(SelectSeq(db.expenses,
                        LAMBDA e : /\ e.user_id = user_id
                                   /\ e.category = category
                                   /\ YearMonth(e.date) = current_month))

\* C27: the spent value the Budget Analysis shows for a budget of user U and
\* category C is the sum of U's own expenses of category C of the current month,
\* each counted once, whatever the number of budget rows for C.
C27_SpentIsOwnExpensesCountedOnce ==
    (op = "budgets_page" /\ error = "none") =>
        LET shown == script[args.session].read
        IN  \A i \in 1..Len(shown) :
                shown[i].spent = OwnSpent(current_user_id, shown[i].category)

====
